---- MODULE Spec2Model ----
(***************************************************************************)
(* Model of the credit-bridge demo:                                        *)
(*   - PositionDashboard (the Position Lifecycle Monitor): the React       *)
(*     component's state, its fetchData / handleClosePosition / countdown  *)
(*     handlers and the effects that re-run them;                          *)
(*   - POST /api/borrow and POST /api/loans (the pre-authorization hold    *)
(*     and the loan store they write to);                                  *)
(*   - the hold-size computation, in IEEE-754 double arithmetic as the     *)
(*     JavaScript evaluates it.                                            *)
(* The specifications share the variables: Spec (the Monitor; SpecLive is  *)
(* Spec with the fairness of what runs without the user), SpecApi (the two *)
(* routes), SpecHold (the hold-size function on its inputs) and SpecRisk   *)
(* (calculateStats on its inputs).                                         *)
(***************************************************************************)
EXTENDS Integers, Sequences, FiniteSets, TLC

VARIABLES
    \* ---- PositionDashboard (src/unnamed/part_000) ----
    address,        \* useAccount().address, NoWallet when undefined
    position,       \* useState<Position | null>
    stats,          \* useState<PositionStats | null>
    linkPrice,      \* useState(0), whole dollars
    loading,        \* useState(true)
    error,          \* useState<string | null>
    isClosing,      \* useState(false)
    timeRemaining,  \* useState(0)
    fetches,        \* fetchData calls awaiting Promise.all, oldest first
    closePending,   \* handleClosePosition calls awaiting closeLeveragePosition
    now,            \* Math.floor(Date.now() / 1000)
    rendered,       \* what the last commit rendered: position, interval, button
    last,           \* the handler that took the last step, and what it saw
    \* ---- the API routes (src/src/app/api) ----
    demoMode,       \* process.env.NEXT_PUBLIC_DEMO_MODE === "true"
    loans,          \* loanStorage: loan id -> stored record
    resp,           \* the last request and the response it got
    awaitingStripe, \* borrows suspended at await stripe.paymentIntents.create
    \* ---- the hold-size computation on its own ----
    hold,           \* inputs of one computation and its result
    \* ---- calculateStats on its own ----
    risk            \* inputs of one call and the PositionStats it returned

monitorVars == <<address, position, stats, linkPrice, loading, error, isClosing,
                 timeRemaining, fetches, closePending, now, rendered, last>>
apiVars == <<demoMode, loans, resp, awaitingStripe>>
holdVars == <<hold, risk>>
vars == <<monitorVars, apiVars, holdVars>>

\* null / undefined: an object-or-null value is <<>> or <<object>>, a missing
\* string field is "", a missing number field is 0 (all falsy in JavaScript).
Null == <<>>
Some(v) == <<v>>
Val(o) == o[1]


----------------------------------------------------------------------------
(***************************************************************************)
(* IEEE-754 binary64 division and Math.ceil.  A positive double is         *)
(* m * 2^e with a 53-bit mantissa 2^52 <= m < 2^53; TLC's integers are 32  *)
(* bits wide, so m is kept as two 28-bit limbs <<hi, lo>> = hi * 2^28 + lo.*)
(***************************************************************************)
RECURSIVE Pow2(_)
Pow2(n) == IF n = 0 THEN 1
           ELSE LET h == Pow2(n \div 2) IN IF n % 2 = 0 THEN h * h ELSE 2 * h * h

Limb == Pow2(28)
MantHi == Pow2(24)

BigDbl(x) == <<2 * x[1] + ((2 * x[2]) \div Limb), (2 * x[2]) % Limb>>
BigGeq(x, y) == x[1] > y[1] \/ (x[1] = y[1] /\ x[2] >= y[2])
BigSub(x, y) == IF x[2] >= y[2] THEN <<x[1] - y[1], x[2] - y[2]>>
                ELSE <<x[1] - y[1] - 1, x[2] + Limb - y[2]>>
BigInc(x) == IF x[2] + 1 = Limb THEN <<x[1] + 1, 0>> ELSE <<x[1], x[2] + 1>>
BigOdd(x) == x[2] % 2 = 1

\* A positive integer below 2^25 as a double (exact): shift it up until the
\* mantissa has 53 bits.
NormStep(v, k) == IF v[1] < Pow2(25 - k) THEN <<v[1] * Pow2(k), v[2] - k>> ELSE v
ToDouble(n) ==
    LET v == NormStep(NormStep(NormStep(NormStep(NormStep(<<n, -28>>, 16), 8), 4), 2), 1)
    IN [m |-> <<v[1], 0>>, e |-> v[2]]

\* One bit of the long division: qr = <<quotient so far, remainder>>.
DivStep(qr, y) ==
    LET r2 == BigDbl(qr[2])
    IN IF BigGeq(r2, y) THEN <<BigInc(BigDbl(qr[1])), BigSub(r2, y)>>
       ELSE <<BigDbl(qr[1]), r2>>

\* n bits of it (split in halves, each half evaluated before the next).
RECURSIVE DivBits(_, _, _)
DivBits(qr, y, n) ==
    IF n = 0 THEN qr
    ELSE IF n = 1 THEN DivStep(qr, y)
    ELSE CHOOSE r \in {DivBits(h, y, n - (n \div 2)) : h \in {DivBits(qr, y, n \div 2)}} : TRUE

\* The quotient of two mantissas, rounded to nearest, ties to even.
DivRound(xm, ym, e0) ==
    LET shift == IF BigGeq(xm, ym) THEN 0 ELSE 1
        n0 == IF shift = 0 THEN xm ELSE BigDbl(xm)
        qr == DivBits(<<(<<0, 1>>), BigSub(n0, ym)>>, ym, 52)
        q == qr[1]
        r2 == BigDbl(qr[2])
        up == IF BigGeq(r2, ym) THEN (r2 # ym \/ BigOdd(q)) ELSE FALSE
        qq == IF up THEN BigInc(q) ELSE q
        e == e0 - 52 - shift
    IN IF qq[1] = 2 * MantHi THEN [m |-> <<MantHi, 0>>, e |-> e + 1]
       ELSE [m |-> qq, e |-> e]

\* x / y on doubles.
DoubleDiv(x, y) ==
    CHOOSE d \in {DivRound(xm, ym, x.e - y.e) : xm \in {x.m}, ym \in {y.m}} : TRUE

\* Math.ceil of a positive double whose ceiling fits 31 bits.
MathCeil(x) ==
    LET s == 0 - x.e
    IN IF s >= 53 THEN 1
       ELSE IF s >= 28
            THEN (x.m[1] \div Pow2(s - 28))
                 + (IF x.m[2] # 0 \/ x.m[1] % Pow2(s - 28) # 0 THEN 1 ELSE 0)
            ELSE x.m[1] * Pow2(28 - s) + (x.m[2] \div Pow2(s))
                 + (IF x.m[2] % Pow2(s) # 0 THEN 1 ELSE 0)

\* 0 and Infinity have no mantissa; Infinity carries the exponent field 2047
\* that binary64 gives it.
DblZero == [m |-> <<0, 0>>, e |-> 0]
Infinity == [m |-> <<0, 0>>, e |-> 2047]

\* A non-negative integer below 2^25 as a double.
Dbl(n) == IF n = 0 THEN DblZero ELSE ToDouble(n)

\* The mantissa xm times an integer k in 1..4095, in 14-bit pieces, rounded
\* back to 53 bits (to nearest, ties to even); t is the number of bits the
\* product has beyond 53.
HalfLimb == Pow2(14)
BitsOver(a) == CHOOSE t \in 0..12 : Pow2(10 + t) <= a /\ a < Pow2(11 + t)
MulRound(xm, k, e) ==
    LET p0 == (xm[2] % HalfLimb) * k
        p1 == (xm[2] \div HalfLimb) * k
        p2 == (xm[1] % HalfLimb) * k
        p3 == (xm[1] \div HalfLimb) * k
        c0 == p0 % HalfLimb
        s1 == p1 + (p0 \div HalfLimb)
        c1 == s1 % HalfLimb
        s2 == p2 + (s1 \div HalfLimb)
        c2 == s2 % HalfLimb
        a == p3 + (s2 \div HalfLimb)
        t == BitsOver(a)
        low == c1 * HalfLimb + c0
        q == <<a * Pow2(14 - t) + (c2 \div Pow2(t)),
               (c2 % Pow2(t)) * Pow2(28 - t) + (low \div Pow2(t))>>
        rem == c0 % Pow2(t)
        half == IF t = 0 THEN 0 ELSE Pow2(t - 1)
        up == t > 0 /\ (rem > half \/ (rem = half /\ BigOdd(q)))
        qq == IF up THEN BigInc(q) ELSE q
    IN IF qq[1] = 2 * MantHi THEN [m |-> <<MantHi, 0>>, e |-> e + t + 1]
       ELSE [m |-> qq, e |-> e + t]

\* x * k on doubles, k an integer-valued double in 0..4095.
DoubleMulInt(x, k) ==
    IF x = DblZero \/ k = 0 THEN DblZero
    ELSE CHOOSE d \in {MulRound(xm, k, x.e) : xm \in {x.m}} : TRUE

\* x / y on non-negative doubles, x > 0 when y = 0.
Quotient(x, y) ==
    IF y = DblZero THEN Infinity
    ELSE IF x = DblZero THEN DblZero
    ELSE DoubleDiv(x, y)

\* x < y on non-negative doubles.
DblLess(x, y) ==
    IF x = Infinity \/ y = DblZero THEN FALSE
    ELSE IF y = Infinity \/ x = DblZero THEN TRUE
    ELSE x.e < y.e \/ (x.e = y.e /\ ~BigGeq(x.m, y.m))

----------------------------------------------------------------------------
(***************************************************************************)
(* POST /api/borrow: the size of the hold.                                 *)
(***************************************************************************)
\* JavaScript truthiness of a request field: a missing field, 0 and "" are falsy.
TruthyNum(v) == v # 0
TruthyStr(v) == v # ""

\* Math.ceil(borrowAmountUSD / (selectedLTV / 100))
CeilByLTV(borrowAmountUSD, selectedLTV) ==
    MathCeil(DoubleDiv(ToDouble(borrowAmountUSD),
                       DoubleDiv(ToDouble(selectedLTV), ToDouble(100))))

\* const preAuthAmount = requiredPreAuth || Math.ceil(...)
preAuthAmount(requiredPreAuth, borrowAmountUSD, selectedLTV) ==
    IF TruthyNum(requiredPreAuth) THEN requiredPreAuth
    ELSE CeilByLTV(borrowAmountUSD, selectedLTV)

----------------------------------------------------------------------------
(***************************************************************************)
(* SpecHold: the hold-size computation on every input of a bounded range.  *)
(* amount is the parsed borrow amount in whole dollars, ltv the LTV        *)
(* percent, override the requiredPreAuth field (0 when absent).            *)
(***************************************************************************)
MaxAmount == 22
LTVPercents == 1..100
Overrides == {0, 7}

HoldInit ==
    hold \in [amount : 1..MaxAmount, ltv : LTVPercents, override : Overrides,
              result : {Null}]

ComputeHold ==
    /\ hold.result = Null
    /\ hold' = [hold EXCEPT
                  !.result = Some(preAuthAmount(hold.override, hold.amount, hold.ltv))]

----------------------------------------------------------------------------
(***************************************************************************)
(* The loan store and the two routes that write to it.  A loan id k stands *)
(* for the string "loan_k"; 0 is a missing id.                             *)
(***************************************************************************)
MaxLoans == 1

LoanIds == 1..MaxLoans

\* loanStorage.createLoan(record): the store keeps one record per id.
createLoan(store, record) ==
    [id \in (DOMAIN store) \cup {record.id} |->
        IF id = record.id THEN record ELSE store[id]]

\* generateLoanId(): an id no stored loan has.  The store never holds more
\* than MaxLoans records, so one of MaxLoans + 1 ids is always unused.
FreshLoanIds(store) == (1..(MaxLoans + 1)) \ DOMAIN store
generateLoanId(store) == CHOOSE id \in FreshLoanIds(store) :
                            \A other \in FreshLoanIds(store) : id <= other

\* LoanStore.updateStatus(id, newStatus): a compare-and-swap out of active.
updateStatus(store, id, newStatus) ==
    [store EXCEPT ![id] = [@ EXCEPT !.status = newStatus]]

\* paymentIntents.create: it throws, or returns an intent in some status.
StripeOutcomes ==
    { [throws |-> TRUE, status |-> "", id |-> ""],
      [throws |-> FALSE, status |-> "requires_capture", id |-> "pi_1"],
      [throws |-> FALSE, status |-> "requires_action", id |-> "pi_1"] }

\* paymentIntent.status !== "requires_capture" is the failure.
PaymentHeldAny(status) == TRUE
PaymentHeld(status) == status = "requires_capture"

\* The JSON bodies a client sends to POST /api/borrow (ethPrice 0: absent).
BorrowBodies ==
    [amount : {0, 21}, ethPrice : {0, 2000}, walletAddress : {"", "0xA"},
     requiredPreAuth : Overrides, selectedLTV : {70},
     customerId : {"", "cus_1"}, paymentMethodId : {"pm_1"},
     preAuthId : {"", "pi_0"}, setupIntentId : {"", "seti_1"}]

NoResponse ==
    [route |-> "none", demo |-> FALSE, http |-> 0, success |-> FALSE, loanId |-> 0,
     params |-> Null, created |-> 0, stripe |-> "none", error |-> ""]

Reply(route, http, success, loanId, params, created, stripe, err) ==
    [route |-> route, demo |-> demoMode, http |-> http, success |-> success,
     loanId |-> loanId, params |-> params, created |-> created, stripe |-> stripe,
     error |-> err]

\* contractParams of a successful borrow; the amount is Math.round(preAuthAmount).
contractParams(amountUSD, intentId, customerId, paymentMethodId) ==
    Some([preAuthAmountUSD |-> amountUSD, stripePaymentIntentId |-> intentId,
          stripeCustomerId |-> customerId, stripePaymentMethodId |-> paymentMethodId])

OrElse(s, fallback) == IF TruthyStr(s) THEN s ELSE fallback

\* `demo_${Date.now()}`: the clock is read once for the stored record and
\* once more for the response.
DemoClocks == {0, 1}
DemoIntent(t) == IF t = 0 THEN "demo_0" ELSE "demo_1"

\* Production borrows waiting at `await stripe.paymentIntents.create`.
MaxAwaiting == 1

\* POST /api/borrow from the request to its reply or, in production with the
\* Stripe data present, to the await on paymentIntents.create.
Borrow(body, t1, t2) ==
    LET loanId == generateLoanId(loans)
        borrowAmountUSD == body.amount
        amt == preAuthAmount(body.requiredPreAuth, borrowAmountUSD, body.selectedLTV)
        stored == OrElse(body.preAuthId, OrElse(body.setupIntentId, DemoIntent(t1)))
        returned == OrElse(body.preAuthId, OrElse(body.setupIntentId, DemoIntent(t2)))
        loanData == [id |-> loanId, walletAddress |-> body.walletAddress,
                     status |-> "active", amount |-> borrowAmountUSD,
                     preAuthAmount |-> amt, stripePaymentIntentId |-> stored]
    IN
    /\ t1 <= t2
    /\ IF ~TruthyNum(body.amount) \/ ~TruthyStr(body.walletAddress)
       THEN /\ resp' = Reply("borrow", 400, FALSE, 0, Null, 0, "none",
                             "Missing required fields")
            /\ UNCHANGED <<loans, awaitingStripe>>
       ELSE IF demoMode
       THEN IF body.ethPrice = 0
            THEN \* ethPrice.toString() on undefined: TypeError, outer catch
                 /\ resp' = Reply("borrow", 500, FALSE, 0, Null, 0, "none", "TypeError")
                 /\ UNCHANGED <<loans, awaitingStripe>>
            ELSE /\ loanId \in LoanIds
                 /\ loans' = createLoan(loans, loanData)
                 /\ resp' = Reply("borrow", 200, TRUE, loanId,
                                  contractParams(amt, returned,
                                                 OrElse(body.customerId, "demo_customer"),
                                                 OrElse(body.paymentMethodId,
                                                        "demo_payment_method")),
                                  1, "none", "")
                 /\ UNCHANGED awaitingStripe
       ELSE IF ~TruthyStr(body.customerId) \/ ~TruthyStr(body.paymentMethodId)
       THEN /\ resp' = Reply("borrow", 400, FALSE, 0, Null, 0, "none",
                             "Missing Stripe data")
            /\ UNCHANGED <<loans, awaitingStripe>>
       ELSE /\ Len(awaitingStripe) < MaxAwaiting
            /\ awaitingStripe' = Append(awaitingStripe,
                    [loanId |-> loanId, preAuthAmount |-> amt,
                     customerId |-> body.customerId,
                     paymentMethodId |-> body.paymentMethodId])
            /\ UNCHANGED <<loans, resp>>
    /\ UNCHANGED demoMode

\* The rest of a production borrow, from the settled paymentIntents.create
\* to the reply.
BorrowSettle(i, stripe) ==
    /\ i \in DOMAIN awaitingStripe
    /\ LET call == awaitingStripe[i] IN
       resp' = IF stripe.throws
               THEN Reply("borrow", 400, FALSE, 0, Null, 0, "throws", "Stripe error")
               ELSE IF ~PaymentHeld(stripe.status)
               THEN Reply("borrow", 400, FALSE, 0, Null, 0, stripe.status,
                          "Payment failed")
               ELSE Reply("borrow", 200, TRUE, call.loanId,
                          contractParams(call.preAuthAmount, stripe.id,
                                         call.customerId, call.paymentMethodId),
                          0, stripe.status, "")
    /\ awaitingStripe' = [k \in 1..(Len(awaitingStripe) - 1) |->
                             IF k < i THEN awaitingStripe[k] ELSE awaitingStripe[k + 1]]
    /\ UNCHANGED <<demoMode, loans>>

\* The JSON bodies a client sends to POST /api/loans.
LoanBodies ==
    [id : 0..MaxLoans, preAuthId : {"", "pi_1"}, walletAddress : {"", "0xB"},
     borrowAmount : {0, 21}, asset : {"ETH"}]

\* The first of the required fields that is missing, "" when none is.
MissingField(loanData) ==
    IF ~TruthyNum(loanData.id) THEN "id"
    ELSE IF ~TruthyStr(loanData.preAuthId) THEN "preAuthId"
    ELSE IF ~TruthyStr(loanData.walletAddress) THEN "walletAddress"
    ELSE IF ~TruthyNum(loanData.borrowAmount) THEN "borrowAmount"
    ELSE IF ~TruthyStr(loanData.asset) THEN "asset"
    ELSE ""

\* POST /api/loans, the whole handler.
PostLoan(loanData) ==
    /\ IF MissingField(loanData) # ""
       THEN /\ resp' = Reply("loans", 400, FALSE, 0, Null, 0, "none",
                             MissingField(loanData))
            /\ UNCHANGED loans
       ELSE /\ loans' = createLoan(loans,
                          [id |-> loanData.id, walletAddress |-> loanData.walletAddress,
                           status |-> "active", amount |-> loanData.borrowAmount,
                           preAuthAmount |-> 0,
                           stripePaymentIntentId |-> loanData.preAuthId])
            /\ resp' = Reply("loans", 200, TRUE, loanData.id, Null, 1, "none", "")
    /\ UNCHANGED <<demoMode, awaitingStripe>>

\* The orchestrator resolving a loan: its status leaves active.
ResolveLoan(id, newStatus) ==
    /\ id \in DOMAIN loans
    /\ loans[id].status = "active"
    /\ loans' = updateStatus(loans, id, newStatus)
    /\ resp' = Reply("resolve", 200, TRUE, id, Null, 0, "none", "")
    /\ UNCHANGED <<demoMode, awaitingStripe>>

----------------------------------------------------------------------------
(***************************************************************************)
(* PositionDashboard.  Quantities are the decoded ones in whole units: a   *)
(* position's suppliedLINK 100 stands for the raw string of 100 * 10^18,   *)
(* a price 12 for the raw string of 12 * 10^8 (these decode exactly).      *)
(* healthFactor, liquidationPrice and currentLTV are computed in doubles,  *)
(* as the component does; unrealizedPnLPercent, which is signed, is kept   *)
(* as the exact fraction num / den.                                        *)
(***************************************************************************)
NoWallet == ""
Wallets == {"0xA"}
NoError == ""

Ratio(n, d) == [num |-> n, den |-> d]
Zero == Ratio(0, 1)
\* const liquidationThreshold = 0.85, and the literal 1.1: the doubles
\* nearest to 85/100 and to 11/10.
liquidationThreshold == DoubleDiv(ToDouble(85), ToDouble(100))
AtRiskBelow == DoubleDiv(ToDouble(11), ToDouble(10))

\* calculateStats(position, currentLinkPrice), with Date.now() / 1000 = nowSec.
calculateStats(pos, currentLinkPrice, nowSec) ==
    LET collateralLINK == pos.collateralLINK
        suppliedLINK == pos.suppliedLINK
        borrowedUSDC == pos.borrowedUSDC
        entryPrice == pos.entryPrice
        initialCollateralUSD == collateralLINK * entryPrice
        currentCollateralUSD == collateralLINK * currentLinkPrice
        totalExposureUSD == suppliedLINK * currentLinkPrice
        initialTotalExposureUSD == suppliedLINK * entryPrice
        pnl == totalExposureUSD - initialTotalExposureUSD
        healthFactor == IF totalExposureUSD > 0
                        THEN Quotient(DoubleMulInt(liquidationThreshold, totalExposureUSD),
                                      Dbl(borrowedUSDC))
                        ELSE DblZero
        liquidationPrice == IF suppliedLINK > 0
                            THEN Quotient(Dbl(borrowedUSDC),
                                          DoubleMulInt(liquidationThreshold, suppliedLINK))
                            ELSE DblZero
        currentLTV == IF totalExposureUSD > 0
                      THEN DoubleMulInt(Quotient(Dbl(borrowedUSDC), Dbl(totalExposureUSD)),
                                        100)
                      ELSE DblZero
    IN [collateralUSD |-> currentCollateralUSD,
        currentCollateralUSD |-> currentCollateralUSD,
        totalExposureLINK |-> suppliedLINK,
        totalExposureUSD |-> totalExposureUSD,
        unrealizedPnL |-> pnl,
        unrealizedPnLPercent |-> IF initialCollateralUSD > 0
                                 THEN Ratio(pnl * 100, initialCollateralUSD)
                                 ELSE Zero,
        liquidationPrice |-> liquidationPrice,
        healthFactor |-> healthFactor,
        timeRemaining |-> pos.preAuthExpiryTime - nowSec,
        currentLTV |-> currentLTV,
        isAtRisk |-> DblLess(healthFactor, AtRiskBelow)]

\* calculateStats on its own: one call on a position and a price of a
\* bounded range (price 0 gives totalExposureUSD = 0).
RiskInputs ==
    [collateralLINK : {0, 50}, suppliedLINK : {0, 6, 12, 100},
     borrowedUSDC : {0, 85, 153, 800}, entryPrice : {10}, price : {0, 9, 15, 30},
     result : {Null}]
RiskPosition(in) ==
    [collateralLINK |-> in.collateralLINK, suppliedLINK |-> in.suppliedLINK,
     borrowedUSDC |-> in.borrowedUSDC, entryPrice |-> in.entryPrice,
     preAuthExpiryTime |-> 1, isActive |-> TRUE]
RiskInit == risk \in RiskInputs
ComputeRisk ==
    /\ risk.result = Null
    /\ risk' = [risk EXCEPT
                  !.result = Some(calculateStats(RiskPosition(risk), risk.price, 0))]

\* What getPositionDetails(address) resolves to: null or a Position.
ChainPositions ==
    { [collateralLINK |-> 50, suppliedLINK |-> 100, borrowedUSDC |-> 800,
       entryPrice |-> 10, preAuthExpiryTime |-> 1, isActive |-> TRUE],
      [collateralLINK |-> 50, suppliedLINK |-> 100, borrowedUSDC |-> 400,
       entryPrice |-> 10, preAuthExpiryTime |-> 0, isActive |-> TRUE],
      [collateralLINK |-> 50, suppliedLINK |-> 100, borrowedUSDC |-> 800,
       entryPrice |-> 10, preAuthExpiryTime |-> 1, isActive |-> FALSE] }
ActivePositions == {p \in ChainPositions : p.isActive}
ChainReads == {Null} \cup {Some(p) : p \in ChainPositions}
\* What getLINKPrice() resolves to, in whole dollars.
Prices == {9, 12}

MaxInflight == 2
MaxNow == 1

\* calculateStats on every active position the chain can return, price and
\* second of the clock, computed once.
StatsTable ==
    [pos \in ActivePositions, price \in Prices, t \in 0..MaxNow |->
        calculateStats(pos, price, t)]

\* calculatedStats = calculateStats(pos, price), at the time of the call.
StatsOfStale(pos, price, t) ==
    IF stats # Null THEN Val(stats) ELSE StatsTable[pos, price, t]
StatsOf(pos, price, t) == StatsTable[pos, price, t]

IsActive(pos) == pos # Null /\ Val(pos).isActive

\* The catch of fetchData: position === null || (position && position.isActive),
\* on the position the call was created with.
ErrorShown(closure) == closure = Null \/ Val(closure).isActive

\* fetchData() up to its await: nothing happens without an address; otherwise
\* the call is in flight.  Of the position of the render that created it (a
\* value that is never changed) the call reads only what its catch tests,
\* which is kept as shows.
StartFetch(fs, addr, closure) ==
    IF addr = NoWallet THEN fs
    ELSE Append(fs, [addr |-> addr, shows |-> ErrorShown(closure), stale |-> FALSE])

\* The Close Position button is rendered, and enabled: if (loading), if (error)
\* and if (!position) each return another screen.
CloseButtonIgnoresClosing ==
    ~loading /\ ~TruthyStr(error) /\ position # Null
CloseButtonEnabled ==
    ~loading /\ ~TruthyStr(error) /\ position # Null /\ ~isClosing

\* The countdown effect arms the interval: not (!stats || timeRemaining <= 0).
IntervalArmed == stats # Null /\ timeRemaining > 0

\* What React has rendered and which effects it has run.  position, fresh,
\* button and arm are of the last commit: the position the re-created
\* fetchData closes over (fresh: setPosition has stored another position
\* object since), whether the button on screen can be clicked and whether the
\* countdown effect of that render arms the interval.  fetchDue and ticking
\* are of the passive effects: the fetchData effect of the last commit has
\* still to run, and the interval is armed now.
SetPosition(r, pos) == [r EXCEPT !.fresh = pos # Null]
\* The dependency list [address, position] of fetchData differs from the one
\* of the last commit.
DepsChanged == IF position = Null THEN rendered.position # Null ELSE rendered.fresh
\* A commit of the state as it is now; its passive effects run later.
Render ==
    [position |-> position, fresh |-> FALSE, button |-> CloseButtonEnabled,
     arm |-> IntervalArmed, fetchDue |-> DepsChanged, ticking |-> rendered.ticking]
RenderPending ==
    \/ DepsChanged
    \/ rendered.button # CloseButtonEnabled
    \/ rendered.arm # IntervalArmed
\* The passive effects of the last commit have not run yet.
EffectsPending == rendered.fetchDue \/ rendered.ticking # rendered.arm
\* The pending passive effects run: useEffect(() => { fetchData() },
\* [fetchData]) calls the fetchData of the last commit, and the countdown
\* effect clears the interval and arms it again.
FlushFetch(fs) ==
    IF rendered.fetchDue THEN StartFetch(fs, address, rendered.position) ELSE fs
Flushed(r) == [r EXCEPT !.fetchDue = FALSE, !.ticking = r.arm]

\* The calls left in flight once call i has resolved; when its result was
\* applied, the calls made before it for the same wallet are now behind a
\* newer result (stale).
Resolved(fs, i, applied) ==
    [j \in 1..(Len(fs) - 1) |->
        IF j < i
        THEN [fs[j] EXCEPT !.stale = @ \/ (applied /\ fs[j].addr = fs[i].addr)]
        ELSE fs[j + 1]]

\* The handler that ran last: op names it, stale says a newer result for the
\* same wallet had been applied, cleared says it removed a displayed position;
\* for a settled fetchData call, wallet is the address it read for and absent
\* says the read showed no active position.
Step(op, stale, cleared) ==
    [op |-> op, stale |-> stale, cleared |-> cleared, wallet |-> NoWallet,
     absent |-> FALSE]
FetchStep(op, r, cleared, absent) ==
    [Step(op, r.stale, cleared) EXCEPT !.wallet = r.addr, !.absent = absent]

\* The else branch of fetchData: setStats(null).
StatsWhenAbsentKept == stats
StatsWhenAbsent == Null

\* The else branch of fetchData: setTimeRemaining(0).
CountdownWhenAbsentKept == timeRemaining
CountdownWhenAbsent == 0

\* setLinkPrice(price).
PriceStored(price) == price

\* fetchData, after the await, when both reads succeeded.
FetchApplyOk(i, pos, price) ==
    LET r == fetches[i]
        active == IsActive(pos)
        calculatedStats == StatsOf(Val(pos), price, now)
        newPosition == IF active THEN pos ELSE Null
    IN /\ i \in 1..Len(fetches)
       /\ position' = newPosition
       /\ rendered' = SetPosition(rendered, newPosition)
       /\ linkPrice' = PriceStored(price)
       /\ stats' = IF active THEN Some(calculatedStats) ELSE StatsWhenAbsent
       /\ timeRemaining' = IF active THEN calculatedStats.timeRemaining
                          ELSE CountdownWhenAbsent
       /\ error' = NoError
       /\ loading' = FALSE
       /\ fetches' = Resolved(fetches, i, TRUE)
       /\ last' = FetchStep("fetchOk", r, position # Null /\ ~active, ~active)
       /\ UNCHANGED <<address, isClosing, closePending, now>>

\* What a rejected promise carries: an Error with its message (the empty
\* string is the message of new Error()), or a value that is not an Error.
Rejections ==
    { [isError |-> TRUE, message |-> ""],
      [isError |-> TRUE, message |-> "execution reverted"],
      [isError |-> FALSE, message |-> ""] }

\* err instanceof Error ? err.message : "An unknown error occurred."
ErrorMessage(err) == IF err.isError THEN err.message ELSE "An unknown error occurred."

\* fetchData, after the await, when a read failed.
FetchApplyErr(i, err) ==
    /\ i \in 1..Len(fetches)
    /\ error' = IF fetches[i].shows THEN ErrorMessage(err) ELSE error
    /\ loading' = FALSE
    /\ fetches' = Resolved(fetches, i, FALSE)
    /\ last' = FetchStep("fetchErr", fetches[i], FALSE, FALSE)
    /\ UNCHANGED <<address, position, stats, linkPrice, isClosing, timeRemaining,
                   closePending, now, rendered>>

\* The countdown's interval callback: the interval the last commit armed runs
\* until the cleanup of the next commit, on the state as it is now.
Tick ==
    /\ rendered.ticking
    /\ timeRemaining' = IF timeRemaining - 1 > 0 THEN timeRemaining - 1 ELSE 0
    /\ last' = Step("tick", FALSE, FALSE)
    /\ UNCHANGED <<address, position, stats, linkPrice, loading, error, isClosing,
                   fetches, closePending, now, rendered>>

\* handleClosePosition up to its await, on a click on the button of the last
\* commit.  React renders the click's updates before the next event, and a
\* render first runs the passive effects that are pending.  The render is of
\* the click's updates alone, or takes the pending updates of settled calls
\* and ticks with it (flush): then their effects run with it too, the
\* re-created fetchData is called and the interval is cleared or armed.
ClickClose(flush) ==
    LET pending == FlushFetch(fetches)
        fs == IF flush /\ DepsChanged
              THEN StartFetch(pending, address, position)
              ELSE pending
    IN /\ rendered.button
       /\ Len(fs) <= MaxInflight
       /\ isClosing' = TRUE
       /\ error' = NoError
       /\ closePending' = closePending + 1
       /\ fetches' = fs
       /\ last' = Step("clickClose", FALSE, FALSE)
       /\ UNCHANGED <<address, position, stats, linkPrice, loading, timeRemaining, now>>
       /\ rendered' = IF flush
                      THEN [Render EXCEPT !.button = CloseButtonEnabled',
                                          !.fetchDue = FALSE,
                                          !.ticking = IntervalArmed]
                      ELSE [Flushed(rendered) EXCEPT !.button = @ /\ CloseButtonEnabled']

\* handleClosePosition, after the await, when closeLeveragePosition resolved.
CloseOk ==
    /\ closePending > 0
    /\ position' = Null
    /\ rendered' = SetPosition(rendered, Null)
    /\ stats' = Null
    /\ isClosing' = FALSE
    /\ closePending' = closePending - 1
    /\ last' = Step("closeOk", FALSE, position # Null)
    /\ UNCHANGED <<address, linkPrice, loading, error, timeRemaining, fetches, now>>

\* handleClosePosition, after the await, when closeLeveragePosition rejected.
CloseErr(err) ==
    /\ closePending > 0
    /\ error' = ErrorMessage(err)
    /\ isClosing' = FALSE
    /\ closePending' = closePending - 1
    /\ last' = Step("closeErr", FALSE, FALSE)
    /\ UNCHANGED <<address, position, stats, linkPrice, loading, timeRemaining,
                   fetches, now, rendered>>

\* React renders and commits the state the settled calls and the interval
\* have set, once for all of them; the passive effects of the commit before
\* have run by then.
Commit ==
    /\ RenderPending
    /\ ~EffectsPending
    /\ rendered' = Render
    /\ UNCHANGED <<address, position, stats, linkPrice, loading, error, isClosing,
                   timeRemaining, fetches, closePending, now, last>>

\* The passive effects of the last commit run, in a task of their own.
RunEffects ==
    LET fs == FlushFetch(fetches)
    IN /\ EffectsPending
       /\ Len(fs) <= MaxInflight
       /\ fetches' = fs
       /\ rendered' = Flushed(rendered)
       /\ UNCHANGED <<address, position, stats, linkPrice, loading, error, isClosing,
                      timeRemaining, closePending, now, last>>

\* The wallet connects, disconnects or switches: useAccount() returns another
\* address; React runs the passive effects that are pending, renders, and the
\* effect calls the re-created fetchData.  The render is of the address alone
\* (fetchData closes over the position of the last commit) or takes the
\* pending updates with it (flush).
SetAddress(a, flush) ==
    LET fs == StartFetch(FlushFetch(fetches), a,
                         IF flush THEN position ELSE rendered.position)
    IN /\ a # address
       /\ Len(fs) <= MaxInflight
       /\ address' = a
       /\ fetches' = fs
       /\ rendered' = IF flush
                      THEN [Render EXCEPT !.fetchDue = FALSE, !.ticking = IntervalArmed]
                      ELSE Flushed(rendered)
       /\ last' = Step("setAddress", FALSE, FALSE)
       /\ UNCHANGED <<position, stats, linkPrice, loading, error, isClosing,
                      timeRemaining, closePending, now>>

\* A second passes on the clock Date.now() reads.
ClockTick ==
    /\ now < MaxNow
    /\ now' = now + 1
    /\ last' = Step("clock", FALSE, FALSE)
    /\ UNCHANGED <<address, position, stats, linkPrice, loading, error, isClosing,
                   timeRemaining, fetches, closePending, rendered>>

----------------------------------------------------------------------------
\* The component as mounted, before a wallet is connected.
MonitorInit ==
    /\ address = NoWallet
    /\ position = Null
    /\ stats = Null
    /\ linkPrice = 0
    /\ loading = TRUE
    /\ error = NoError
    /\ isClosing = FALSE
    /\ timeRemaining = 0
    /\ fetches = <<>>
    /\ closePending = 0
    /\ now = 0
    /\ rendered = [position |-> Null, fresh |-> FALSE, button |-> FALSE,
                   arm |-> FALSE, fetchDue |-> FALSE, ticking |-> FALSE]
    /\ last = Step("mount", FALSE, FALSE)

ApiIdle ==
    /\ demoMode = FALSE
    /\ loans = <<>>
    /\ resp = NoResponse
    /\ awaitingStripe = <<>>

HoldIdle == hold = [amount |-> 1, ltv |-> 100, override |-> 0, result |-> Null]

RiskIdle ==
    risk = [collateralLINK |-> 0, suppliedLINK |-> 0, borrowedUSDC |-> 0,
            entryPrice |-> 10, price |-> 0, result |-> Null]

Init == MonitorInit /\ ApiIdle /\ HoldIdle /\ RiskIdle

Next ==
    \/ (\E a \in Wallets \cup {NoWallet}, flush \in BOOLEAN : SetAddress(a, flush))
           /\ UNCHANGED <<apiVars, holdVars>>
    \/ (\E i \in 1..MaxInflight, pos \in ChainReads, price \in Prices :
            FetchApplyOk(i, pos, price)) /\ UNCHANGED <<apiVars, holdVars>>
    \/ (\E i \in 1..MaxInflight, err \in Rejections : FetchApplyErr(i, err))
           /\ UNCHANGED <<apiVars, holdVars>>
    \/ Tick /\ UNCHANGED <<apiVars, holdVars>>
    \/ (\E flush \in BOOLEAN : ClickClose(flush)) /\ UNCHANGED <<apiVars, holdVars>>
    \/ CloseOk /\ UNCHANGED <<apiVars, holdVars>>
    \/ (\E err \in Rejections : CloseErr(err)) /\ UNCHANGED <<apiVars, holdVars>>
    \/ Commit /\ UNCHANGED <<apiVars, holdVars>>
    \/ RunEffects /\ UNCHANGED <<apiVars, holdVars>>
    \/ ClockTick /\ UNCHANGED <<apiVars, holdVars>>

Spec == Init /\ [][Next]_vars

\* What happens without the user: a pending fetchData or handleClosePosition
\* call settles (the awaited promise resolves or rejects), React renders what
\* was set and runs the effects.  The wallet and the button are the user's,
\* and the interval is cleared and armed again by every commit that changed
\* the countdown: they get no fairness.
Settle ==
    /\ \/ \E i \in 1..MaxInflight, pos \in ChainReads, price \in Prices :
              FetchApplyOk(i, pos, price)
       \/ \E i \in 1..MaxInflight, err \in Rejections : FetchApplyErr(i, err)
       \/ CloseOk
       \/ \E err \in Rejections : CloseErr(err)
    /\ UNCHANGED <<apiVars, holdVars>>

SpecLive ==
    /\ Spec
    /\ WF_vars(Settle)
    /\ WF_vars(Commit /\ UNCHANGED <<apiVars, holdVars>>)
    /\ WF_vars(RunEffects /\ UNCHANGED <<apiVars, holdVars>>)

\* The routes, in demo mode or in production mode, on an empty store.
ApiInit ==
    /\ MonitorInit
    /\ HoldIdle
    /\ RiskIdle
    /\ demoMode \in BOOLEAN
    /\ loans = <<>>
    /\ resp = NoResponse
    /\ awaitingStripe = <<>>

ApiNext ==
    \/ (\E body \in BorrowBodies, t1, t2 \in DemoClocks : Borrow(body, t1, t2))
           /\ UNCHANGED <<monitorVars, holdVars>>
    \/ (\E i \in 1..MaxAwaiting, stripe \in StripeOutcomes : BorrowSettle(i, stripe))
           /\ UNCHANGED <<monitorVars, holdVars>>
    \/ (\E loanData \in LoanBodies : PostLoan(loanData))
           /\ UNCHANGED <<monitorVars, holdVars>>
    \/ (\E id \in LoanIds, s \in {"closed", "liquidated"} : ResolveLoan(id, s))
           /\ UNCHANGED <<monitorVars, holdVars>>

SpecApi == ApiInit /\ [][ApiNext]_vars

HoldAllInit == MonitorInit /\ ApiIdle /\ HoldInit /\ RiskIdle

HoldNext == ComputeHold /\ UNCHANGED <<monitorVars, apiVars, risk>>

SpecHold == HoldAllInit /\ [][HoldNext]_vars

RiskAllInit == MonitorInit /\ ApiIdle /\ HoldIdle /\ RiskInit

RiskNext == ComputeRisk /\ UNCHANGED <<monitorVars, apiVars, hold>>

SpecRisk == RiskAllInit /\ [][RiskNext]_vars

----------------------------------------------------------------------------
(***************************************************************************)
(* The claims about the Monitor (checked under Spec).                      *)
(***************************************************************************)

\* C1: a snapshot (stats) is present only while a position is present and
\* active; a step that clears the position leaves no snapshot behind.
C1_SnapshotOnlyWhenActive ==
    stats # Null => IsActive(position)

\* C1, its case: a step has just cleared a position that was displayed.
C1_Witness ==
    last.cleared /\ position = Null /\ stats = Null

\* C2: a refresh result that arrives after the result of a newer request has
\* been applied is discarded: position, snapshot, price and countdown keep
\* the values the newer request produced.
C2_StaleResponseDiscarded ==
    [][(last'.op = "fetchOk" /\ last'.stale)
         => UNCHANGED <<position, stats, linkPrice, timeRemaining>>]_vars

\* C3: when closeLeveragePosition fails, handleClosePosition leaves the
\* position and the snapshot as they are (an Active view stays Active), the
\* error is surfaced (a message is stored, so that the error screen renders),
\* the closing flag is reset and no close call is left in flight or started;
\* requesting the close changed neither position nor snapshot either.
C3_CloseFailureKeepsPosition ==
    [][/\ last'.op = "closeErr"
          => /\ position' = position
             /\ stats' = stats
             /\ TruthyStr(error')
             /\ ~isClosing'
             /\ closePending' = 0
       /\ (last'.op = "clickClose" /\ isClosing' /\ ~isClosing)
          => /\ position' = position
             /\ stats' = stats
             /\ closePending' = closePending + 1]_vars

\* C4: the position view becomes absent only in a refresh that saw the
\* on-chain position absent or inactive, never because the close call
\* returned.
C4_ClearedOnlyByConfirmingRefresh ==
    [][(position # Null /\ position' = Null) => last'.op = "fetchOk"]_vars

\* C5: a failed refresh leaves position, snapshot and countdown as they
\* are, and surfaces the error (stores a message the error screen renders)
\* when a position is displayed.
C5_FetchFailureKeepsState ==
    [][last'.op = "fetchErr"
         => /\ position' = position
            /\ stats' = stats
            /\ timeRemaining' = timeRemaining
            /\ (IsActive(position) => TruthyStr(error'))]_vars

\* C11: a refresh for the bound wallet that fails while the position is
\* confirmed absent (a close, or a refresh for this wallet, has just cleared
\* it or found none) does not set the surfaced error.
C11_AbsentFailureSuppressed ==
    [][(/\ last'.op = "fetchErr"
        /\ position = Null
        /\ last'.wallet = address
        /\ (last.op = "closeOk" \/ (last.op = "fetchOk" /\ last.wallet = address)))
         => error' = error]_vars

\* C12: while a wallet is bound, a refresh that failed, and likewise one that
\* found no position, is followed by another refresh without the user acting:
\* a fetchData call is eventually in flight again.
C12_RefreshKeepsRunning ==
    (/\ address # NoWallet
     /\ last.wallet = address
     /\ (last.op = "fetchErr" \/ (last.op = "fetchOk" /\ last.absent)))
      ~> (Len(fetches) > 0 \/ address = NoWallet)

\* C13: at most one close is in flight: while the closing flag is set exactly
\* one closeLeveragePosition call is pending and no other can be started, and
\* the flag is reset once that call has settled, resolved or rejected.
C13_AtMostOneClose ==
    /\ closePending \in {0, 1}
    /\ isClosing <=> closePending = 1
    /\ isClosing => ~ENABLED (\E flush \in BOOLEAN : ClickClose(flush))

\* C13, its case: a close is pending while the button is on screen.
C13_Witness ==
    /\ isClosing
    /\ closePending = 1
    /\ position # Null
    /\ ~loading
    /\ error = NoError

\* The fetchData calls in flight that read for the bound wallet.
InflightForBound == {i \in 1..Len(fetches) : fetches[i].addr = address}

\* C14: at most one refresh is in flight for the bound wallet, in every
\* state, also right after a refresh result or a successful close has changed
\* the position.
C14_AtMostOneRefresh ==
    Cardinality(InflightForBound) <= 1

\* C15: the result of a refresh requested for a wallet other than the bound
\* one is abandoned (position, snapshot, price, countdown and error are not
\* updated from it), and once no wallet is bound no position stays displayed.
C15_OtherWalletResultAbandoned ==
    [][/\ (last'.op \in {"fetchOk", "fetchErr"} /\ last'.wallet # address)
          => UNCHANGED <<position, stats, linkPrice, timeRemaining, error>>
       /\ address' = NoWallet => position' = Null]_vars

\* C16: the countdown is never negative: not after a tick, and not after a
\* refresh of an active position whose pre-authorization has already expired.
C16_CountdownNeverNegative ==
    timeRemaining >= 0

\* C17: a refresh that observes no position, or an inactive one, leaves the
\* Monitor Inactive: no position, no snapshot, countdown 0, nothing loading
\* and no error, whatever was displayed before.
C17_AbsentRefreshResets ==
    (last.op = "fetchOk" /\ last.absent)
      => /\ position = Null
         /\ stats = Null
         /\ timeRemaining = 0
         /\ ~loading
         /\ error = NoError

\* C17, its case: such a refresh has just cleared a displayed position.
C17_Witness ==
    /\ last.op = "fetchOk"
    /\ last.absent
    /\ last.cleared
    /\ timeRemaining = 0

\* C19: a snapshot that is present is the one calculateStats gives for the
\* stored position and the stored price (at the time of some refresh).
C19_SnapshotMatchesStored ==
    stats # Null
      => /\ position # Null
         /\ Val(position) \in ActivePositions
         /\ linkPrice \in Prices
         /\ \E t \in 0..MaxNow :
               Val(stats) = StatsTable[Val(position), linkPrice, t]

\* C19, its case: a refresh has replaced the position on screen by another
\* one, with its own snapshot.
C19_Witness ==
    /\ last.op = "fetchOk"
    /\ stats # Null
    /\ rendered.position # Null
    /\ rendered.position # position

----------------------------------------------------------------------------
(***************************************************************************)
(* The claims about calculateStats (checked under SpecRisk).               *)
(***************************************************************************)

\* C18: the risk calculation never divides by zero: healthFactor is 0 when
\* nothing is borrowed, liquidationPrice is 0 when nothing is supplied,
\* currentLTV is 0 when the exposure is 0, and no result is Infinity.
C18_RiskGuardedAgainstZero ==
    risk.result # Null
      => LET r == Val(risk.result)
         IN /\ risk.borrowedUSDC = 0 => r.healthFactor = DblZero
            /\ risk.suppliedLINK = 0 => r.liquidationPrice = DblZero
            /\ r.totalExposureUSD = 0 => r.currentLTV = DblZero
            /\ Infinity \notin {r.healthFactor, r.liquidationPrice, r.currentLTV}

\* C20: for a position with supplied > 0 and borrowed > 0 at a price > 0,
\* healthFactor >= 1 exactly when price >= liquidationPrice, which is when
\* 85 * supplied * price >= 100 * borrowed, and currentLTV > 85 exactly when
\* healthFactor < 1.
C20_LiquidationPriceMatchesHealth ==
    (/\ risk.result # Null
     /\ risk.suppliedLINK > 0
     /\ risk.borrowedUSDC > 0
     /\ risk.price > 0)
      => LET r == Val(risk.result)
             healthy == ~DblLess(r.healthFactor, Dbl(1))
         IN /\ healthy <=> ~DblLess(Dbl(risk.price), r.liquidationPrice)
            /\ healthy <=> (85 * risk.suppliedLINK * risk.price
                              >= 100 * risk.borrowedUSDC)
            /\ DblLess(Dbl(85), r.currentLTV) <=> ~healthy

----------------------------------------------------------------------------
(***************************************************************************)
(* The claims about the routes (checked under SpecApi) and about the hold  *)
(* size (checked under SpecHold).                                          *)
(***************************************************************************)

\* C7: a borrow request that returns success has created exactly one loan
\* record, with status active, in demo and in production mode; one that
\* fails has created none.
C7_SuccessfulBorrowCreatesRecord ==
    resp.route = "borrow"
      => /\ resp.success
            => /\ resp.created = 1
               /\ resp.loanId \in DOMAIN loans
               /\ loans[resp.loanId].status = "active"
         /\ ~resp.success => resp.created = 0

\* C8: a create never overwrites a stored record, and a record whose status
\* has left active is never stored as active again.
C8_NoOverwriteNoResurrection ==
    [][\A id \in DOMAIN loans :
          /\ id \in DOMAIN loans'
          /\ (loans[id].status # "active" => loans'[id].status # "active")
          /\ (resp'.route \in {"borrow", "loans"} => loans'[id] = loans[id])]_vars

\* C9: without an override the hold is the least integer H with
\* H * ltvPercent >= borrowAmountUSD * 100; with one it is the override.
C9_HoldIsExactCeiling ==
    hold.result # Null
      => LET H == Val(hold.result)
         IN IF hold.override # 0
            THEN H = hold.override
            ELSE /\ H * hold.ltv >= hold.amount * 100
                 /\ (H - 1) * hold.ltv < hold.amount * 100

\* C10: in production mode a borrow succeeds, with contract parameters,
\* only on a hold in requires_capture; on any other status or on a Stripe
\* error it fails, returns no parameters and creates no record.
C10_ProductionSuccessOnlyWhenHeld ==
    [][Len(awaitingStripe') < Len(awaitingStripe)
         => /\ resp'.route = "borrow" /\ ~resp'.demo
            /\ resp'.success
                 => (resp'.stripe = "requires_capture" /\ resp'.params # Null)
            /\ resp'.stripe \in {"requires_action", "throws"}
                 => (~resp'.success /\ resp'.params = Null /\ resp'.created = 0
                     /\ loans' = loans)]_vars

\* C10, its case: the processor returned a hold that is not capturable.
C10_Witness ==
    /\ resp.route = "borrow"
    /\ ~resp.demo
    /\ resp.stripe = "requires_action"
    /\ ~resp.success

====
